---- MODULE Spec2Model ----
(***************************************************************************)
(* Model of controller/webhook/server.go: the admission webhook server.    *)
(*                                                                         *)
(* Two subsystems share one process:                                       *)
(*   - the certificate store (Server.cert guarded by Server.certMutex),    *)
(*     written by updateCert (called once by NewServer and then by run on  *)
(*     every watcher update event) and read by getCertificate;             *)
(*   - the request path serve -> processReq -> decode / handler.           *)
(* Next to them runs the watcher goroutine started by NewServer, which     *)
(* sends on the two unbuffered channels run receives from, returns when    *)
(* the context is cancelled and ends the process when it fails.            *)
(*                                                                         *)
(* Pointers to tls.Certificate objects are modelled by the object they     *)
(* designate: "live" is the object Server.cert points to, "fresh" is the   *)
(* local variable cert of a running updateCert, "retired" is an object     *)
(* Server.cert no longer points to (nothing writes it any more, so it is   *)
(* carried by value), "nil" is the nil pointer.                            *)
(***************************************************************************)
EXTENDS Integers, Sequences, FiniteSets, TLC

\* ------------------------------------------------------------------ bounds
NumCerts == 2
NumGetters == 2

NumReqs == 1

\* ------------------------------------------------------- certificate data
Certs == 1..NumCerts
Getters == 1..NumGetters
Callers == {"main", "run"}

\* A zero tls.Certificate{} value (also what a nil *tls.Certificate shows).
ZeroCert == [crt |-> 0, key |-> 0]
\* A certificate with its own private key.
Complete(m) == m.crt \in Certs /\ m.key = m.crt

NilPtr == [ref |-> "nil", val |-> ZeroCert]
LivePtr == [ref |-> "live", val |-> ZeroCert]
FreshPtr == [ref |-> "fresh", val |-> ZeroCert]
Retired(m) == [ref |-> "retired", val |-> m]

\* Content of the two mounted files (key, certificate).  Unreadable covers a
\* missing file and PEM that does not parse; Mismatched is a readable pair
\* whose key does not belong to the certificate.
Unreadable == [readable |-> FALSE, crt |-> 0, key |-> 0]
Mismatched == [readable |-> TRUE, crt |-> 1, key |-> NumCerts]
FileStates == {[readable |-> TRUE, crt |-> c, key |-> c] : c \in Certs} \cup {Mismatched, Unreadable}

VARIABLES
  proc,       \* "running" or "fatal" (log.Fatalf ended the process)
  mainPC,     \* position of NewServer
  runPC,      \* position of Server.run
  files,      \* current content of the mounted key/cert files
  wSend,      \* the watcher's blocked channel send: "none", "Updated", "Failed"
  wPC,        \* position of the watcher goroutine: "watching" or "returned"
  ctxDone,    \* the context given to NewServer is cancelled
  scert,      \* Server.cert: NilPtr or LivePtr
  liveCell,   \* the tls.Certificate Server.cert points to
  mutex,      \* Server.certMutex: [writer, pending, readers]
  updPC,      \* position of each caller inside updateCert
  updCreds,   \* updateCert local creds
  updErr,     \* updateCert local err is non-nil
  updCert,    \* updateCert local cert
  updAddr,    \* &cert
  gPC,        \* position of each getCertificate call / handshake
  gPtr,       \* pointer returned by the call
  certAtCall, \* history: Server.cert's material when updateCert was called
  lastGood,   \* history: material of the most recent updateCert that returned nil
  lastOutcome, \* history: "none", "ok" or "err" of the most recent updateCert return
  rPC,        \* position of each request inside serve / processReq
  rBody,      \* req.Body of each request
  rData,      \* serve local data
  rErr,       \* processReq local err after decode ("" is nil)
  rReview,    \* processReq local admissionReview
  rHOut,      \* what the handler returned: [err, resp]
  rCalls,     \* history: number of handler invocations for the request
  rJSON,      \* serve local responseJSON
  res         \* the request's http.ResponseWriter

updLocals == <<updPC, updCreds, updErr, updCert, updAddr>>
getVars == <<gPC, gPtr>>
histVars == <<certAtCall, lastGood, lastOutcome>>

lifeVars == <<wPC, ctxDone>>

certVars == <<proc, mainPC, runPC, files, wSend, scert, liveCell, mutex, updLocals,
              getVars, histVars, lifeVars>>

reqVars == <<rPC, rBody, rData, rErr, rReview, rHOut, rCalls, rJSON, res>>

vars == <<certVars, reqVars>>

\* ----------------------------------------------------------- pure helpers

\* pkgTls.ReadPEMCreds(keyPath, crtPath) as called by updateCert.
ReadPEMCreds(f) ==
  IF f.readable THEN [err |-> FALSE, creds |-> [crt |-> f.crt, key |-> f.key]]
  ELSE [err |-> TRUE, creds |-> ZeroCert]

\* creds.EncodePEM(): the certificate re-encoded as a PEM block.
EncodePEM(creds) == [block |-> "CERTIFICATE", body |-> creds.crt]

\* creds.EncodePrivateKeyPEM(): the key re-encoded as a PEM block.
EncodePrivateKeyPEM(creds) == [block |-> "PRIVATE KEY", body |-> creds.key]

\* tls.X509KeyPair(certPEM, keyPEM): fails with a zero Certificate when the
\* private key does not match the certificate's public key.
X509KeyPair(certPEM, keyPEM) ==
  IF certPEM.block = "CERTIFICATE" /\ keyPEM.block = "PRIVATE KEY" /\ certPEM.body = keyPEM.body
  THEN [err |-> FALSE, cert |-> [crt |-> certPEM.body, key |-> keyPEM.body]]
  ELSE [err |-> TRUE, cert |-> ZeroCert]

\* What a pointer held by the TLS layer or by Server.cert shows, given the
\* content of the live object.
DerefIn(p, live) ==
  CASE p.ref = "live" -> live
    [] p.ref = "retired" -> p.val
    [] OTHER -> ZeroCert

Deref(p) == DerefIn(p, liveCell)

\* Mutation: the certificate is parsed into the object Server.cert points to.
NewCertCellInPlace(stored) == IF stored.ref = "live" THEN LivePtr ELSE FreshPtr

\* `cert, err := tls.X509KeyPair(...)` declares a new variable on every call.
NewCertCell(stored) == FreshPtr

\* Mutation: the error of X509KeyPair is not checked.
AfterKeyPairUnchecked(err) == "lock"

\* `if err != nil { return err }` after X509KeyPair.
AfterKeyPair(err) == IF err THEN "retErr" ELSE "lock"

\* Mutation: the new certificate is never stored.
StoredPtrStale(newAddr, old) == old

\* `s.cert = &cert`
StoredPtr(newAddr, old) == newAddr

\* certMutex.Lock() can announce itself: no other Lock holds or waits
CanLock(m) == ~m.writer /\ ~m.pending

\* Mutation: Lock does not wait for the readers to leave.
ReadersIgnored(m) == TRUE

\* certMutex.Lock() returns once the readers that were in have left
ReadersGone(m) == m.readers = {}

\* certMutex.RLock() can proceed: no Lock holds the mutex and none waits
CanRLock(m) == ~m.writer /\ ~m.pending

\* Mutation: a failed initial load is only logged.
AfterInitialLoadLenient(err) == "goRun"

\* NewServer after s.updateCert(): log.Fatalf on error.
AfterInitialLoad(err) == IF err THEN "fatal" ELSE "goRun"

\* Mutation: run gives up after an update that failed.
RunStopsAfterFailedUpdate(err) == IF err THEN "stopped" ELSE "select"

\* run after s.updateCert(): both branches only log and loop.
RunAfterUpdateCert(err) == "select"

\* Mutation: run gives up after an error event.
RunStopsAfterErrEvent == "stopped"

\* run after an error event: only logs and loops.
RunAfterErrEvent == "select"

Running == proc = "running"

\* ------------------------------------------------------------------- Init
CertInit ==
  /\ proc = "running"
  /\ mainPC = "init"
  /\ runPC = "notStarted"
  /\ files \in FileStates
  /\ wSend = "none"
  /\ wPC = "watching"
  /\ ctxDone = FALSE
  /\ scert = NilPtr
  /\ liveCell = ZeroCert
  /\ mutex = [writer |-> FALSE, pending |-> FALSE, readers |-> {}]
  /\ updPC = [c \in Callers |-> "idle"]
  /\ updCreds = [c \in Callers |-> ZeroCert]
  /\ updErr = [c \in Callers |-> FALSE]
  /\ updCert = [c \in Callers |-> ZeroCert]
  /\ updAddr = [c \in Callers |-> NilPtr]
  /\ gPC = [g \in Getters |-> "idle"]
  /\ gPtr = [g \in Getters |-> NilPtr]
  /\ certAtCall = ZeroCert
  /\ lastGood = ZeroCert
  /\ lastOutcome = "none"

\* ------------------------------------------------------------- updateCert
\* The call itself: fresh locals.
UpdCall(c) ==
  /\ updPC' = [updPC EXCEPT ![c] = "read"]
  /\ certAtCall' = Deref(scert)
  /\ UNCHANGED <<updCreds, updErr, updCert, updAddr, lastGood, lastOutcome>>

\* lines 90-96: read the files; on error return "failed to read cert from disk"
UpdReadCreds(c) ==
  /\ UNCHANGED <<reqVars, lifeVars>>
  /\ Running /\ updPC[c] = "read"
  /\ LET r == ReadPEMCreds(files) IN
       /\ updCreds' = [updCreds EXCEPT ![c] = r.creds]
       /\ updErr' = [updErr EXCEPT ![c] = r.err]
       /\ updPC' = [updPC EXCEPT ![c] = IF r.err THEN "retErr" ELSE "keypair"]
  /\ UNCHANGED <<proc, mainPC, runPC, files, wSend, scert, liveCell, mutex, updCert, updAddr,
                 getVars, histVars>>

\* lines 98-103: re-encode, parse into the local cert, check the error
UpdX509KeyPair(c) ==
  /\ UNCHANGED <<reqVars, lifeVars>>
  /\ Running /\ updPC[c] = "keypair"
  /\ LET k == X509KeyPair(EncodePEM(updCreds[c]), EncodePrivateKeyPEM(updCreds[c]))
         a == NewCertCell(scert) IN
       /\ updErr' = [updErr EXCEPT ![c] = k.err]
       /\ updAddr' = [updAddr EXCEPT ![c] = a]
       /\ updCreds' = [updCreds EXCEPT ![c] = ZeroCert]  \* creds is dead from here on
       /\ IF a.ref = "live"
          THEN liveCell' = k.cert /\ UNCHANGED updCert
          ELSE updCert' = [updCert EXCEPT ![c] = k.cert] /\ UNCHANGED liveCell
       /\ updPC' = [updPC EXCEPT ![c] = AfterKeyPair(k.err)]
  /\ UNCHANGED <<proc, mainPC, runPC, files, wSend, scert, mutex, getVars, histVars>>

\* line 104: s.certMutex.Lock()
UpdLock(c) ==
  /\ UNCHANGED <<reqVars, lifeVars>>
  /\ Running /\ updPC[c] = "lock"
  /\ CanLock(mutex)
  /\ mutex' = [mutex EXCEPT !.pending = TRUE]
  /\ updPC' = [updPC EXCEPT ![c] = "lockWait"]
  /\ UNCHANGED <<proc, mainPC, runPC, files, wSend, scert, liveCell, updCreds, updErr, updCert,
                 updAddr, getVars, histVars>>

\* line 104, continued: Lock() returns when the readers have left
UpdLockAcquired(c) ==
  /\ UNCHANGED <<reqVars, lifeVars>>
  /\ Running /\ updPC[c] = "lockWait"
  /\ ReadersGone(mutex)
  /\ mutex' = [mutex EXCEPT !.writer = TRUE, !.pending = FALSE]
  /\ updPC' = [updPC EXCEPT ![c] = "store"]
  /\ UNCHANGED <<proc, mainPC, runPC, files, wSend, scert, liveCell, updCreds, updErr, updCert,
                 updAddr, getVars, histVars>>

\* line 106: s.cert = &cert.  The object Server.cert pointed to so far is
\* retired: pointers the TLS layer still holds keep showing it.
UpdStore(c) ==
  /\ UNCHANGED <<reqVars, lifeVars>>
  /\ Running /\ updPC[c] = "store"
  /\ LET p == StoredPtr(updAddr[c], scert) IN
       /\ IF p.ref = "fresh"
          THEN /\ scert' = LivePtr
               /\ liveCell' = updCert[c]
               /\ updAddr' = [updAddr EXCEPT ![c] = LivePtr]
               /\ gPtr' = [g \in Getters |->
                             IF gPtr[g].ref = "live" THEN Retired(liveCell) ELSE gPtr[g]]
          ELSE /\ scert' = p
               /\ UNCHANGED <<liveCell, updAddr, gPtr>>
  /\ updPC' = [updPC EXCEPT ![c] = "unlock"]
  /\ UNCHANGED <<proc, mainPC, runPC, files, wSend, mutex, updCreds, updErr, updCert,
                 gPC, histVars>>

\* lines 105, 108: return nil, the deferred Unlock runs
UpdUnlock(c) ==
  /\ UNCHANGED <<reqVars, lifeVars>>
  /\ Running /\ updPC[c] = "unlock"
  /\ mutex' = [mutex EXCEPT !.writer = FALSE]
  /\ updPC' = [updPC EXCEPT ![c] = "retOk"]
  /\ lastGood' = IF updAddr[c].ref = "fresh" THEN updCert[c] ELSE Deref(updAddr[c])
  /\ UNCHANGED <<proc, mainPC, runPC, files, wSend, scert, liveCell, updCreds, updErr, updCert,
                 updAddr, getVars, certAtCall, lastOutcome>>

\* The caller has updateCert's return value; the locals go out of scope.
UpdReturn(c) ==
  /\ updPC' = [updPC EXCEPT ![c] = "idle"]
  /\ updCreds' = [updCreds EXCEPT ![c] = ZeroCert]
  /\ updErr' = [updErr EXCEPT ![c] = FALSE]
  /\ updCert' = [updCert EXCEPT ![c] = ZeroCert]
  /\ updAddr' = [updAddr EXCEPT ![c] = NilPtr]
  /\ lastOutcome' = IF updPC[c] = "retOk" THEN "ok" ELSE "err"
  /\ UNCHANGED <<certAtCall, lastGood>>

\* --------------------------------------------------------------- NewServer
\* line 78: s.updateCert() is called (lines 52-76 have run: the watcher
\* goroutine is started, s.cert is nil, the mutex is fresh)
NewServerUpdateCert ==
  /\ UNCHANGED <<reqVars, lifeVars>>
  /\ Running /\ mainPC = "init"
  /\ mainPC' = "loading"
  /\ UpdCall("main")
  /\ UNCHANGED <<proc, runPC, files, wSend, scert, liveCell, mutex, getVars>>

\* lines 78-80: log.Fatalf when the initial load failed
NewServerAfterLoad ==
  /\ UNCHANGED <<reqVars, lifeVars>>
  /\ Running /\ mainPC = "loading" /\ updPC["main"] \in {"retOk", "retErr"}
  /\ UpdReturn("main")
  /\ LET next == AfterInitialLoad(updPC["main"] = "retErr") IN
       /\ mainPC' = next
       /\ proc' = IF next = "fatal" THEN "fatal" ELSE proc
  /\ UNCHANGED <<runPC, files, wSend, scert, liveCell, mutex, getVars>>

\* lines 82-86: start run in its goroutine and return the server
NewServerReturn ==
  /\ UNCHANGED <<reqVars, lifeVars>>
  /\ Running /\ mainPC = "goRun"
  /\ mainPC' = "returned"
  /\ runPC' = "select"
  /\ UNCHANGED <<proc, files, wSend, scert, liveCell, mutex, updLocals, getVars, histVars>>

\* --------------------------------------------------------------------- run
\* lines 135-136: an update event is received, updateCert is called
RunRecvUpdate ==
  /\ UNCHANGED <<reqVars, lifeVars>>
  /\ Running /\ runPC = "select"
  /\ wSend = "Updated"
  /\ wSend' = "none"
  /\ runPC' = "update"
  /\ UpdCall("run")
  /\ UNCHANGED <<proc, mainPC, files, scert, liveCell, mutex, getVars>>

\* lines 136-140: updateCert returned; either way only a log line
RunAfterUpdate ==
  /\ UNCHANGED <<reqVars, lifeVars>>
  /\ Running /\ runPC = "update" /\ updPC["run"] \in {"retOk", "retErr"}
  /\ UpdReturn("run")
  /\ runPC' = RunAfterUpdateCert(updPC["run"] = "retErr")
  /\ UNCHANGED <<proc, mainPC, files, wSend, scert, liveCell, mutex, getVars>>

\* lines 141-142: an error event is received and logged
RunRecvErr ==
  /\ UNCHANGED <<reqVars, lifeVars>>
  /\ Running /\ runPC = "select"
  /\ wSend = "Failed"
  /\ wSend' = "none"
  /\ runPC' = RunAfterErrEvent
  /\ UNCHANGED <<proc, mainPC, files, scert, liveCell, mutex, updLocals, getVars, histVars>>

\* ----------------------------------------------------- watcher, filesystem
\* The mounted files are replaced: by a valid pair, by a pair that does not
\* match, or by something unreadable.
FsChange(f) ==
  /\ UNCHANGED <<reqVars, lifeVars>>
  /\ Running
  /\ f # files
  /\ files' = f
  /\ UNCHANGED <<proc, mainPC, runPC, wSend, scert, liveCell, mutex, updLocals, getVars,
                 histVars>>

\* The watcher goroutine (started at lines 55-59) sends on updateEvent or on
\* errEvent; both channels are unbuffered (lines 52-53), so it stays in the
\* send until run receives.
WatcherSend(e) ==
  /\ UNCHANGED <<reqVars, lifeVars>>
  /\ Running /\ wPC = "watching" /\ ~ctxDone /\ wSend = "none"
  /\ wSend' = e
  /\ UNCHANGED <<proc, mainPC, runPC, files, scert, liveCell, mutex, updLocals, getVars,
                 histVars>>

\* The context passed to NewServer (line 46) is cancelled by its owner.
CtxCancel ==
  /\ Running /\ ~ctxDone
  /\ ctxDone' = TRUE
  /\ UNCHANGED <<proc, mainPC, runPC, files, wSend, wPC, scert, liveCell, mutex, updLocals,
                 getVars, histVars, reqVars>>

\* lines 55-59: watcher.StartWatching(ctx) returns nil once the context is
\* cancelled; the goroutine ends.
WatcherReturn ==
  /\ Running /\ ctxDone /\ wPC = "watching" /\ wSend = "none"
  /\ wPC' = "returned"
  /\ UNCHANGED <<proc, mainPC, runPC, files, wSend, ctxDone, scert, liveCell, mutex, updLocals,
                 getVars, histVars, reqVars>>

\* lines 56-58: watcher.StartWatching(ctx) returns an error and the goroutine
\* calls log.Fatalf, which ends the process, whatever NewServer is doing.
WatcherFatal ==
  /\ Running /\ wPC = "watching" /\ wSend = "none"
  /\ wPC' = "returned"
  /\ proc' = "fatal"
  /\ UNCHANGED <<mainPC, runPC, files, wSend, ctxDone, scert, liveCell, mutex, updLocals,
                 getVars, histVars, reqVars>>

\* ----------------------------------------------------------- getCertificate
\* The TLS layer calls the callback installed at line 76; the server only
\* listens after NewServer returned it.
GetCall(g) ==
  /\ UNCHANGED <<reqVars, lifeVars>>
  /\ Running /\ mainPC = "returned" /\ gPC[g] = "idle"
  /\ gPC' = [gPC EXCEPT ![g] = "calling"]
  /\ UNCHANGED <<proc, mainPC, runPC, files, wSend, scert, liveCell, mutex, updLocals, gPtr,
                 histVars>>

\* line 125: s.certMutex.RLock()
GetRLock(g) ==
  /\ UNCHANGED <<reqVars, lifeVars>>
  /\ Running /\ gPC[g] = "calling"
  /\ CanRLock(mutex)
  /\ mutex' = [mutex EXCEPT !.readers = @ \cup {g}]
  /\ gPC' = [gPC EXCEPT ![g] = "locked"]
  /\ UNCHANGED <<proc, mainPC, runPC, files, wSend, scert, liveCell, updLocals, gPtr, histVars>>

\* lines 126-127: return s.cert, the deferred RUnlock runs
GetReturn(g) ==
  /\ UNCHANGED <<reqVars, lifeVars>>
  /\ Running /\ gPC[g] = "locked"
  /\ gPtr' = [gPtr EXCEPT ![g] = scert]
  /\ mutex' = [mutex EXCEPT !.readers = @ \ {g}]
  /\ gPC' = [gPC EXCEPT ![g] = "returned"]
  /\ UNCHANGED <<proc, mainPC, runPC, files, wSend, scert, liveCell, updLocals, histVars>>

\* The handshake used the certificate behind the pointer and is over; the
\* pointer is dropped.
GetDone(g) ==
  /\ UNCHANGED <<reqVars, lifeVars>>
  /\ Running /\ gPC[g] = "returned"
  /\ gPC' = [gPC EXCEPT ![g] = "idle"]
  /\ gPtr' = [gPtr EXCEPT ![g] = NilPtr]
  /\ UNCHANGED <<proc, mainPC, runPC, files, wSend, scert, liveCell, mutex, updLocals, histVars>>


\* ================================================================ requests
Reqs == 1..NumReqs
UIDs == {"", "abc"}

\* http.StatusOK, http.StatusInternalServerError
StatusOK == 200
StatusInternalServerError == 500

\* Request bodies.  A body is absent (req.Body == nil), fails while being
\* read, or yields bytes; the bytes are empty, are no YAML at all, or are a
\* YAML/JSON mapping that may have a "kind" entry (a string, or a number,
\* which does not fit TypeMeta.Kind) and a "request" entry (a number, which
\* does not fit *AdmissionRequest, or a mapping that may carry a "uid").
EmptyBytes == [syntax |-> "empty", kind |-> "absent", request |-> "absent", uid |-> ""]
Garbage == [syntax |-> "garbage", kind |-> "absent", request |-> "absent", uid |-> ""]
Mappings ==
  {[syntax |-> "map", kind |-> k, request |-> q, uid |-> u] :
     k \in {"string", "number"}, q \in {"absent", "number"}, u \in {""}}
  \cup {[syntax |-> "map", kind |-> k, request |-> "object", uid |-> u] :
     k \in {"string", "number"}, u \in UIDs}
Payloads == {EmptyBytes, Garbage} \cup Mappings
Bodies ==
  {[present |-> FALSE, readErr |-> FALSE, bytes |-> EmptyBytes],
   [present |-> TRUE, readErr |-> TRUE, bytes |-> EmptyBytes]}
  \cup {[present |-> TRUE, readErr |-> FALSE, bytes |-> b] : b \in Payloads}

\* len(data)
Length(data) == IF data.syntax = "empty" THEN 0 ELSE 1

\* *admissionv1beta1.AdmissionResponse; present = FALSE is the nil pointer.
\* msg is Result.Message ("" also stands for a nil Result).
NoResponse == [present |-> FALSE, uid |-> "", allowed |-> FALSE, msg |-> "", patch |-> ""]
\* admissionv1beta1.AdmissionReview: Request (nil when hasRequest is FALSE)
\* with its UID, and Response.
ZeroReview == [hasRequest |-> FALSE, uid |-> "", response |-> NoResponse]
NoOutcome == [err |-> "", resp |-> NoResponse]

\* decode (lines 216-220): yaml.Unmarshal converts the YAML to JSON and
\* unmarshals that into the review.  Bytes that are no YAML leave the review
\* zero; an entry of the wrong type is reported after the other entries have
\* been filled in.  The address of the local review is returned either way.
decode(data) ==
  IF data.syntax = "garbage"
  THEN [err |-> "error converting YAML to JSON", review |-> ZeroReview]
  ELSE [err |-> IF data.kind = "number" \/ data.request = "number"
                THEN "error unmarshaling JSON" ELSE "",
        review |-> [hasRequest |-> data.request = "object",
                    uid |-> IF data.request = "object" THEN data.uid ELSE "",
                    response |-> NoResponse]]

\* Mutation: the denial does not take the request's UID.
DenialNoUID(uid, errText) ==
  [present |-> TRUE, uid |-> "", allowed |-> FALSE, msg |-> errText, patch |-> ""]

\* lines 182-188 and 197-203: the synthesized denial
Denial(uid, errText) ==
  [present |-> TRUE, uid |-> uid, allowed |-> FALSE, msg |-> errText, patch |-> ""]

\* Mutation: the forwarded response gets the request's UID.
ForwardedWithRequestUID(resp, review) == [resp EXCEPT !.uid = review.uid]

\* line 206: admissionReview.Response = admissionResponse
Forwarded(resp, review) == resp

\* What a handler (type Handler, lines 27-32) may return for a request: an
\* error, a nil response, or a response of its choice, whose UID it sets
\* itself.
HandlerOutcomes(uid) ==
  {[err |-> "handler failed", resp |-> NoResponse], NoOutcome}
  \cup {[err |-> "", resp |-> [present |-> TRUE, uid |-> u, allowed |-> TRUE, msg |-> "", patch |-> "patch"]] :
          u \in {uid, "other"}}
  \cup {[err |-> "", resp |-> [present |-> TRUE, uid |-> uid, allowed |-> FALSE, msg |-> "denied", patch |-> ""]]}

\* encoding/json renders []byte as base64 text
Base64(bytes) == <<"base64", bytes>>

\* json.Marshal(response) at line 166: "request", "response", "status" and
\* "patch" are omitempty (an absent entry is <<>>), "uid" and "allowed" are
\* always written.
Marshal(review) ==
  [err |-> "",
   json |-> [request |-> IF review.hasRequest THEN <<[uid |-> review.uid]>> ELSE <<>>,
             response |-> IF review.response.present
                          THEN <<[uid |-> review.response.uid,
                                  allowed |-> review.response.allowed,
                                  status |-> IF review.response.msg = "" THEN <<>>
                                             ELSE <<[message |-> review.response.msg]>>,
                                  patch |-> IF review.response.patch = "" THEN <<>>
                                            ELSE <<Base64(review.response.patch)>>]>>
                          ELSE <<>>]]
NoJSON == Marshal(ZeroReview).json

\* http.ResponseWriter: the status sent (0: header not written yet), the
\* chunks that reached the connection, the number of writes attempted.
NewWriter == [status |-> 0, body |-> <<>>, writes |-> 0]

\* Mutation: serve answers with 500 and the error as plain text.
WriteStatusFromError(w, chunk, ok) ==
  [status |-> IF w.status = 0 THEN StatusInternalServerError ELSE w.status,
   body |-> IF ok THEN Append(w.body, [fmt |-> "text", text |-> "error", json |-> NoJSON]) ELSE w.body,
   writes |-> w.writes + 1]

\* res.Write(b): the first write sends the header with 200
Write(w, chunk, ok) ==
  [status |-> IF w.status = 0 THEN StatusOK ELSE w.status,
   body |-> IF ok THEN Append(w.body, chunk) ELSE w.body,
   writes |-> w.writes + 1]

\* http.Error(res, msg, code): WriteHeader(code), which is ignored once the
\* header is out, then the message is written as plain text
HttpError(w, msg, code, ok) ==
  Write([w EXCEPT !.status = IF @ = 0 THEN code ELSE @], [fmt |-> "text", text |-> msg, json |-> NoJSON], ok)

\* Mutation: the empty payload is processed like any other.
AfterReadNoCheck(len) == "process"

\* lines 160-163: `if len(data) == 0 { return }`
AfterRead(len) == IF len = 0 THEN "return" ELSE "process"

\* lines 180, 183: with a decode error the response takes
\* admissionReview.Request.UID, which faults when Request is nil
AfterDecodeErr(review) == IF review.hasRequest THEN "marshal" ELSE "panicked"

\* line 191: admissionReview.Request.UID is logged, which faults when Request
\* is nil
AfterDecodeOk(review) == IF review.hasRequest THEN "handler" ELSE "panicked"

ReqInit ==
  /\ rPC = [r \in Reqs |-> "none"]
  /\ rBody = [r \in Reqs |-> [present |-> FALSE, readErr |-> FALSE, bytes |-> EmptyBytes]]
  /\ rData = [r \in Reqs |-> EmptyBytes]
  /\ rErr = [r \in Reqs |-> ""]
  /\ rReview = [r \in Reqs |-> ZeroReview]
  /\ rHOut = [r \in Reqs |-> NoOutcome]
  /\ rCalls = [r \in Reqs |-> 0]
  /\ rJSON = [r \in Reqs |-> NoJSON]
  /\ res = [r \in Reqs |-> NewWriter]

\* The http server calls s.Handler (line 75), i.e. serve, in the request's
\* own goroutine.
ServeCall(r, body) ==
  /\ UNCHANGED certVars
  /\ rPC[r] = "none"
  /\ rPC' = [rPC EXCEPT ![r] = "read"]
  /\ rBody' = [rBody EXCEPT ![r] = body]
  /\ UNCHANGED <<rData, rErr, rReview, rHOut, rCalls, rJSON, res>>

\* lines 152-158: read the body; a read error is answered with 500
ServeReadBody(r) ==
  /\ UNCHANGED certVars
  /\ rPC[r] = "read"
  /\ IF rBody[r].present /\ rBody[r].readErr
     THEN /\ \E ok \in BOOLEAN :
               res' = [res EXCEPT ![r] = HttpError(@, "read error", StatusInternalServerError, ok)]
          /\ rPC' = [rPC EXCEPT ![r] = "return"]
          /\ UNCHANGED rData
     ELSE /\ rData' = [rData EXCEPT ![r] = rBody[r].bytes]
          /\ rPC' = [rPC EXCEPT ![r] = "checkEmpty"]
          /\ UNCHANGED res
  /\ UNCHANGED <<rBody, rErr, rReview, rHOut, rCalls, rJSON>>

\* lines 160-165: an empty payload is only logged
ServeCheckEmpty(r) ==
  /\ UNCHANGED certVars
  /\ rPC[r] = "checkEmpty"
  /\ rPC' = [rPC EXCEPT ![r] = AfterRead(Length(rData[r]))]
  /\ UNCHANGED <<rBody, rData, rErr, rReview, rHOut, rCalls, rJSON, res>>

\* lines 179-192: decode; on error synthesize the denial and return
ProcessDecode(r) ==
  /\ UNCHANGED certVars
  /\ rPC[r] = "process"
  /\ LET d == decode(rData[r]) IN
       /\ rErr' = [rErr EXCEPT ![r] = d.err]
       /\ IF d.err # ""
          THEN /\ rPC' = [rPC EXCEPT ![r] = AfterDecodeErr(d.review)]
               /\ rReview' = [rReview EXCEPT ![r] =
                    IF AfterDecodeErr(d.review) = "panicked" THEN d.review
                    ELSE [d.review EXCEPT !.response = Denial(d.review.uid, d.err)]]
          ELSE /\ rPC' = [rPC EXCEPT ![r] = AfterDecodeOk(d.review)]
               /\ rReview' = [rReview EXCEPT ![r] = d.review]
  /\ UNCHANGED <<rBody, rData, rHOut, rCalls, rJSON, res>>

\* lines 194-208: call the handler; deny on error, else forward its response
ProcessHandler(r) ==
  /\ UNCHANGED certVars
  /\ rPC[r] = "handler"
  /\ \E o \in HandlerOutcomes(rReview[r].uid) :
       /\ rHOut' = [rHOut EXCEPT ![r] = o]
       /\ rReview' = [rReview EXCEPT ![r].response =
            IF o.err # "" THEN Denial(rReview[r].uid, o.err) ELSE Forwarded(o.resp, rReview[r])]
  /\ rCalls' = [rCalls EXCEPT ![r] = @ + 1]
  /\ rPC' = [rPC EXCEPT ![r] = "marshal"]
  /\ UNCHANGED <<rBody, rData, rErr, rJSON, res>>

\* lines 166-170: serialize the review; a failure is answered with 500
ServeMarshal(r) ==
  /\ UNCHANGED certVars
  /\ rPC[r] = "marshal"
  /\ LET m == Marshal(rReview[r]) IN
       IF m.err # ""
       THEN /\ \E ok \in BOOLEAN :
                 res' = [res EXCEPT ![r] = HttpError(@, m.err, StatusInternalServerError, ok)]
            /\ rPC' = [rPC EXCEPT ![r] = "return"]
            /\ UNCHANGED rJSON
       ELSE /\ rJSON' = [rJSON EXCEPT ![r] = m.json]
            /\ rPC' = [rPC EXCEPT ![r] = "write"]
            /\ UNCHANGED res
  /\ UNCHANGED <<rBody, rData, rErr, rReview, rHOut, rCalls>>

\* lines 172-175: write the serialized review; on a write error http.Error
ServeWrite(r) ==
  /\ UNCHANGED certVars
  /\ rPC[r] = "write"
  /\ \E ok \in BOOLEAN :
       LET w == Write(res[r], [fmt |-> "json", text |-> "", json |-> rJSON[r]], ok) IN
         res' = [res EXCEPT ![r] =
                   IF ok THEN w ELSE HttpError(w, "write error", StatusInternalServerError, FALSE)]
  /\ rPC' = [rPC EXCEPT ![r] = "return"]
  /\ UNCHANGED <<rBody, rData, rErr, rReview, rHOut, rCalls, rJSON>>

\* serve returned: the http server completes the response, with 200 when the
\* handler wrote nothing.
ServeReturn(r) ==
  /\ UNCHANGED certVars
  /\ rPC[r] = "return"
  /\ res' = [res EXCEPT ![r].status = IF @ = 0 THEN StatusOK ELSE @]
  /\ rPC' = [rPC EXCEPT ![r] = "finished"]
  /\ UNCHANGED <<rBody, rData, rErr, rReview, rHOut, rCalls, rJSON>>

ReqNext ==
  \/ \E r \in Reqs : \E b \in Bodies : ServeCall(r, b)
  \/ \E r \in Reqs : ServeReadBody(r)
  \/ \E r \in Reqs : ServeCheckEmpty(r)
  \/ \E r \in Reqs : ProcessDecode(r)
  \/ \E r \in Reqs : ProcessHandler(r)
  \/ \E r \in Reqs : ServeMarshal(r)
  \/ \E r \in Reqs : ServeWrite(r)
  \/ \E r \in Reqs : ServeReturn(r)

\* ------------------------------------------------------------------- Next
CertNext ==
  \/ NewServerUpdateCert
  \/ NewServerAfterLoad
  \/ NewServerReturn
  \/ \E c \in Callers : UpdReadCreds(c)
  \/ \E c \in Callers : UpdX509KeyPair(c)
  \/ \E c \in Callers : UpdLock(c)
  \/ \E c \in Callers : UpdLockAcquired(c)
  \/ \E c \in Callers : UpdStore(c)
  \/ \E c \in Callers : UpdUnlock(c)
  \/ RunRecvUpdate
  \/ RunAfterUpdate
  \/ RunRecvErr
  \/ \E f \in FileStates : FsChange(f)
  \/ \E e \in {"Updated", "Failed"} : WatcherSend(e)
  \/ \E g \in Getters : GetCall(g)
  \/ \E g \in Getters : GetRLock(g)
  \/ \E g \in Getters : GetReturn(g)
  \/ \E g \in Getters : GetDone(g)

\* The certificate store: startup, rotation and handshakes.
Init == CertInit /\ ReqInit
Next == CertNext
Spec == Init /\ [][Next]_vars

\* The certificate store over the whole life of the process: the watcher
\* goroutine may fail, the context may be cancelled.
ProcNext ==
  \/ CertNext
  \/ CtxCancel
  \/ WatcherReturn
  \/ WatcherFatal

SpecProc == Init /\ [][ProcNext]_vars

\* Scheduling: the Go runtime lets every goroutine that can take a step take
\* it eventually (weak fairness of the steps of NewServer, run and the TLS
\* layer's getCertificate calls).  sync.RWMutex admits the readers blocked in
\* RLock when the writer unlocks, before another Lock can succeed: a Get that
\* waits while the lock keeps becoming free gets it (strong fairness of
\* GetRLock).
Fairness ==
  /\ WF_vars(NewServerUpdateCert) /\ WF_vars(NewServerAfterLoad) /\ WF_vars(NewServerReturn)
  /\ WF_vars(RunRecvUpdate) /\ WF_vars(RunRecvErr) /\ WF_vars(RunAfterUpdate)
  /\ \A c \in Callers :
       /\ WF_vars(UpdReadCreds(c)) /\ WF_vars(UpdX509KeyPair(c))
       /\ WF_vars(UpdLock(c)) /\ WF_vars(UpdLockAcquired(c))
       /\ WF_vars(UpdStore(c)) /\ WF_vars(UpdUnlock(c))
  /\ \A g \in Getters : SF_vars(GetRLock(g)) /\ WF_vars(GetReturn(g))

\* The certificate store under fair scheduling.
FairSpec == Spec /\ Fairness

\* The whole life of the process under fair scheduling; the watcher goroutine
\* returns once the context is cancelled.
FairSpecProc == SpecProc /\ Fairness /\ WF_vars(WatcherReturn)

\* The request path: any number of requests up to NumReqs, served concurrently.
SpecReq == Init /\ [][ReqNext]_vars

\* One rotation against any number of handshakes: NewServer has returned
\* with a certificate loaded, run has received one update event and is about
\* to call updateCert; no further event is sent.
OneUpdateInit ==
  /\ ReqInit
  /\ proc = "running"
  /\ mainPC = "returned"
  /\ runPC = "update"
  /\ files \in FileStates
  /\ wSend = "none"
  /\ wPC = "watching"
  /\ ctxDone = FALSE
  /\ scert = LivePtr
  /\ liveCell \in {[crt |-> c, key |-> c] : c \in Certs}
  /\ mutex = [writer |-> FALSE, pending |-> FALSE, readers |-> {}]
  /\ updPC = [c \in Callers |-> IF c = "run" THEN "read" ELSE "idle"]
  /\ updCreds = [c \in Callers |-> ZeroCert]
  /\ updErr = [c \in Callers |-> FALSE]
  /\ updCert = [c \in Callers |-> ZeroCert]
  /\ updAddr = [c \in Callers |-> NilPtr]
  /\ gPC = [g \in Getters |-> "idle"]
  /\ gPtr = [g \in Getters |-> NilPtr]
  /\ certAtCall = liveCell
  /\ lastGood = liveCell
  /\ lastOutcome = "ok"

OneUpdateNext ==
  \/ \E c \in Callers : UpdReadCreds(c)
  \/ \E c \in Callers : UpdX509KeyPair(c)
  \/ \E c \in Callers : UpdLock(c)
  \/ \E c \in Callers : UpdLockAcquired(c)
  \/ \E c \in Callers : UpdStore(c)
  \/ \E c \in Callers : UpdUnlock(c)
  \/ RunAfterUpdate
  \/ \E f \in FileStates : FsChange(f)
  \/ \E g \in Getters : GetCall(g)
  \/ \E g \in Getters : GetRLock(g)
  \/ \E g \in Getters : GetReturn(g)
  \/ \E g \in Getters : GetDone(g)

SpecOneUpdate == OneUpdateInit /\ [][OneUpdateNext]_vars

TypeOK ==
  /\ proc \in {"running", "fatal"}
  /\ scert \in {NilPtr, LivePtr}

\* ================================================================== claims

\* C1: Server.cert holds the material of the most recent updateCert that
\* returned nil (the initially loaded one if no later update succeeded)
\* whenever no update is between its store and its return, and every
\* getCertificate call returns a pointer to exactly that material.
C1_GetReturnsLastGood ==
  /\ []((\A c \in Callers : updPC[c] # "unlock") => Deref(scert) = lastGood)
  /\ [][\A g \in Getters :
          (gPC[g] = "locked" /\ gPC'[g] = "returned")
            => DerefIn(gPtr'[g], liveCell') = lastGood']_vars

\* C1 witness: certificate A was loaded and handed to a handshake, a valid B
\* replaced it, the latest update failed, and a call now inside
\* getCertificate is about to return B.
C1_Witness ==
  \E g \in Getters, h \in Getters :
    /\ gPC[g] = "returned" /\ gPtr[g].ref = "retired"
    /\ Complete(Deref(gPtr[g])) /\ Deref(gPtr[g]) # lastGood
    /\ gPC[h] = "locked" /\ Deref(scert) = lastGood /\ Complete(lastGood)
    /\ lastOutcome = "err" /\ runPC = "select"

\* C2: an updateCert call whose read or parse failed returns the error and
\* Server.cert is what it was when the call began; run never leaves its
\* loop, and is back at the select once the failed call has returned.
C2_FailedUpdateKeepsCert ==
  /\ \A c \in Callers :
       /\ updErr[c] => updPC[c] = "retErr"
       /\ updPC[c] = "retErr" => (updErr[c] /\ Deref(scert) = certAtCall)
  /\ runPC \in {"notStarted", "select", "update"}
  /\ (mainPC = "returned" /\ updPC["run"] = "idle") => runPC = "select"

\* C2 witness: run's updateCert is returning an error with a loaded
\* certificate untouched.
C2_Witness ==
  /\ updPC["run"] = "retErr" /\ updErr["run"]
  /\ Complete(Deref(scert)) /\ Deref(scert) = certAtCall

\* C3: with one updateCert running against any number of getCertificate
\* calls, the pointer a call returned shows, for as long as the handshake
\* holds it, a complete certificate: the one active before the update or the
\* one the update installs.
C3_GetSeesPreOrPost ==
  \A g \in Getters :
    gPC[g] = "returned" =>
      /\ Complete(Deref(gPtr[g]))
      /\ Deref(gPtr[g]) \in
           {certAtCall, lastGood} \cup (IF updPC["run"] = "unlock" THEN {updCert["run"]} ELSE {})

\* C3 witness: one handshake holds the certificate from before the update,
\* another the one the update installed.
C3_Witness ==
  \E g \in Getters, h \in Getters :
    /\ gPC[g] = "returned" /\ gPC[h] = "returned"
    /\ Deref(gPtr[g]) = certAtCall /\ Deref(gPtr[h]) = lastGood
    /\ certAtCall # lastGood

\* C4: once NewServer has returned, Server.cert is not nil and no
\* getCertificate call returns nil; when the initial load fails the process
\* ends before any call is served.
C4_NeverNilAfterInit ==
  /\ mainPC = "returned" => (scert # NilPtr /\ Complete(Deref(scert)))
  /\ \A g \in Getters : gPC[g] = "returned" => gPtr[g] # NilPtr
  /\ mainPC = "fatal" => (proc = "fatal" /\ \A g \in Getters : gPC[g] = "idle")

\* C4 witness: a call returned a certificate after a later update failed.
C4_Witness ==
  \E g \in Getters :
    /\ gPC[g] = "returned" /\ gPtr[g] = LivePtr
    /\ lastOutcome = "err" /\ mainPC = "returned"

\* The request's UID as the body carries it.
BodyUID(r) == rBody[r].bytes.uid
\* The body reached processReq.
Processed(r) == rPC[r] \in {"handler", "marshal", "write", "return", "finished", "panicked"}
\* The serialized review reached the connection.
Sent(r) == rPC[r] = "finished" /\ res[r].body # <<>> /\ res[r].body[1].fmt = "json"
SentResponse(r) == res[r].body[1].json.response

\* C5: when the handler returned an error, the review's response is a
\* denial with the request's UID and the handler's error text, and that is
\* what is sent.
C5_HandlerErrorDenied ==
  \A r \in Reqs :
    (rCalls[r] > 0 /\ rHOut[r].err # "") =>
      /\ rErr[r] = ""
      /\ rReview[r].response.present
      /\ rReview[r].response.allowed = FALSE
      /\ rReview[r].response.uid = BodyUID(r)
      /\ rReview[r].response.msg = rHOut[r].err
      /\ Sent(r) =>
           /\ Len(SentResponse(r)) = 1
           /\ SentResponse(r)[1].allowed = FALSE
           /\ SentResponse(r)[1].uid = BodyUID(r)
           /\ SentResponse(r)[1].status = <<[message |-> rHOut[r].err]>>

\* C5 witness: a request with uid "abc" whose handler failed was answered.
C5_Witness ==
  \E r \in Reqs :
    /\ Sent(r) /\ rHOut[r].err = "handler failed" /\ BodyUID(r) = "abc"
    /\ SentResponse(r)[1].uid = "abc"

\* C6: when the handler returned a response and no error, the review carries
\* exactly that response next to the request as decoded, and the exchange
\* sent is the serialization of the two.
C6_HandlerResponseForwarded ==
  \A r \in Reqs :
    (rCalls[r] > 0 /\ rHOut[r].err = "") =>
      /\ rReview[r].response = rHOut[r].resp
      /\ rReview[r].hasRequest /\ rReview[r].uid = BodyUID(r)
      /\ Sent(r) =>
           res[r].body = <<[fmt |-> "json", text |-> "",
                            json |-> Marshal([hasRequest |-> TRUE, uid |-> BodyUID(r),
                                              response |-> rHOut[r].resp]).json]>>

\* C6 witness: uid "abc", the handler allowed with its own UID, and the
\* exchange was sent with that UID and the patch.
C6_Witness ==
  \E r \in Reqs :
    /\ Sent(r) /\ rCalls[r] = 1 /\ BodyUID(r) = "abc"
    /\ rHOut[r].resp.present /\ rHOut[r].resp.uid = "other" /\ rHOut[r].resp.allowed
    /\ SentResponse(r)[1].uid = "other" /\ SentResponse(r)[1].allowed
    /\ SentResponse(r)[1].patch = <<Base64("patch")>>
    /\ res[r].body[1].json.request = <<[uid |-> "abc"]>>

\* C7 (as claimed): every non-empty body that fails to decode is processed to
\* completion with a denial that has a non-empty message and echoes the UID
\* when a request was extracted.
C7_DecodeFailureDenied ==
  \A r \in Reqs :
    (Processed(r) /\ rErr[r] # "") =>
      /\ rPC[r] # "panicked"
      /\ rReview[r].response.present
      /\ rReview[r].response.allowed = FALSE
      /\ rReview[r].response.msg # ""
      /\ rReview[r].hasRequest => rReview[r].response.uid = rReview[r].uid

\* C8 (as claimed): an undecodable body is answered with a non-2xx status
\* and plain text, a rejected well-formed review with 200 and a denial.
C8_UndecodableGetsErrorStatus ==
  \A r \in Reqs :
    rPC[r] = "finished" =>
      /\ rErr[r] # "" =>
           /\ res[r].status \notin 200..299
           /\ \A i \in 1..Len(res[r].body) : res[r].body[i].fmt = "text"
      /\ (rCalls[r] > 0 /\ rReview[r].response.present /\ ~rReview[r].response.allowed) =>
           res[r].status = StatusOK

\* C8 (amended): a request whose non-empty body was read is never answered
\* with a non-2xx status or with plain text.  An undecodable body from which
\* a request object was extracted is answered like a rejected well-formed
\* review, with 200 and a serialized denial carrying the parse error; one
\* from which none was extracted faults in processReq and nothing is
\* written.  Only a body that cannot be read is answered with 500 and text.
C8_UndecodableAnsweredLikeDenial ==
  \A r \in Reqs :
    /\ (rPC[r] = "finished" /\ Length(rData[r]) > 0) =>
         /\ res[r].status = StatusOK
         /\ res[r].writes >= 1
         /\ \A i \in 1..Len(res[r].body) : res[r].body[i].fmt = "json"
         /\ (rErr[r] # "" /\ Sent(r)) =>
              /\ Len(SentResponse(r)) = 1
              /\ SentResponse(r)[1].allowed = FALSE
              /\ SentResponse(r)[1].status = <<[message |-> rErr[r]]>>
         /\ (rCalls[r] > 0 /\ rHOut[r].resp.present /\ ~rHOut[r].resp.allowed /\ Sent(r)) =>
              SentResponse(r)[1].allowed = FALSE
    /\ (rErr[r] # "" /\ ~rReview[r].hasRequest) =>
         (rPC[r] = "panicked" /\ res[r] = NewWriter)
    /\ res[r].status \notin {0, StatusOK} => (rBody[r].readErr /\ res[r].status = StatusInternalServerError)

\* C8 witness: a mapping whose kind has the wrong type but whose request has
\* uid "abc" was answered with 200 and a denial.
C8_Witness ==
  \E r \in Reqs :
    /\ Sent(r) /\ rErr[r] # "" /\ res[r].status = StatusOK
    /\ SentResponse(r)[1].allowed = FALSE /\ SentResponse(r)[1].uid = "abc"

\* C9 (as claimed): a body that decodes without a request object is answered
\* with a denial and a message, and the request task does not fault.
C9_MissingRequestDenied ==
  \A r \in Reqs :
    (Processed(r) /\ rErr[r] = "" /\ ~rReview[r].hasRequest) =>
      /\ rPC[r] # "panicked"
      /\ rPC[r] = "finished" =>
           /\ rReview[r].response.present
           /\ rReview[r].response.allowed = FALSE
           /\ rReview[r].response.msg # ""

\* A body that is absent or has no bytes.
EmptyBody(r) == rPC[r] # "none" /\ ~rBody[r].readErr /\ Length(rBody[r].bytes) = 0

\* C10: a request with an empty or absent body returns from serve without
\* decoding anything, without a handler call, without a write and without
\* an error status.
C10_EmptyBodyNoOp ==
  \A r \in Reqs :
    EmptyBody(r) =>
      /\ rPC[r] \in {"read", "checkEmpty", "return", "finished"}
      /\ rReview[r] = ZeroReview /\ rErr[r] = ""
      /\ rCalls[r] = 0
      /\ res[r].writes = 0 /\ res[r].body = <<>>
      /\ res[r].status \in {0, StatusOK}

\* C10 witness: a request with a present but empty body is finished, with
\* nothing written.
C10_Witness ==
  \E r \in Reqs :
    /\ rPC[r] = "finished" /\ rBody[r].present /\ EmptyBody(r)
    /\ res[r].writes = 0 /\ res[r].status = StatusOK

\* The handler was called and the review has a response.
Answered(r) == rCalls[r] > 0 /\ rReview[r].response.present

\* C11 (as stated): for a request that was decoded, whatever the handler
\* returned, the response of the review, and of the exchange sent, carries the
\* request's UID.
C11_ResponseUIDIsRequestUID ==
  \A r \in Reqs :
    Answered(r) =>
      /\ rReview[r].response.uid = BodyUID(r)
      /\ Sent(r) => SentResponse(r)[1].uid = BodyUID(r)

\* C11 (amended): the response carries the request's UID when processReq
\* built it from a handler error; a response returned by the handler carries
\* the UID the handler gave it, equal to the request's or not.
C11_ResponseUIDFollowsHandler ==
  \A r \in Reqs :
    Answered(r) =>
      /\ rHOut[r].err # "" => rReview[r].response.uid = BodyUID(r)
      /\ rHOut[r].err = "" => rReview[r].response.uid = rHOut[r].resp.uid
      /\ Sent(r) => SentResponse(r)[1].uid = rReview[r].response.uid

\* C11 witness: a request with UID "abc" was answered with the UID "other"
\* that the handler put in its response.
C11_Witness ==
  \E r \in Reqs :
    /\ Sent(r) /\ Answered(r) /\ BodyUID(r) = "abc"
    /\ rHOut[r].err = "" /\ rHOut[r].resp.uid = "other"
    /\ SentResponse(r)[1].uid = "other"

\* NewServer has completed the initial certificate load.
InitialLoadDone == mainPC \in {"goRun", "returned"}

\* C12 (as stated): once the initial load has completed the process is never
\* terminated, whatever fails afterwards: a rotation attempt, an error event
\* of the watcher, or the watcher task itself.
C12_NoFailureEndsProcess == InitialLoadDone => proc = "running"

\* C13 (as stated): per request the handler is called at most once, and only
\* for a non-empty body that decoded without error; after a decode error
\* processing goes on to encoding and sending, with no handler call.
C13_HandlerOnceAfterDecode ==
  \A r \in Reqs :
    /\ rCalls[r] <= 1
    /\ rCalls[r] = 1 => (Length(rData[r]) > 0 /\ rErr[r] = "" /\ decode(rData[r]).err = "")
    /\ (Processed(r) /\ rErr[r] # "") =>
         (rCalls[r] = 0 /\ rPC[r] \in {"marshal", "write", "return", "finished"})

\* The callers that are inside updateCert.
Updating == {c \in Callers : updPC[c] # "idle"}
\* The callers that hold the write lock (between Lock and the deferred Unlock).
Writers == {c \in Callers : updPC[c] \in {"store", "unlock"}}

\* C14: at most one updateCert is in progress; the one of NewServer is over
\* before run is started and the later ones are run's, one at a time; the
\* write lock is held by one update and by no Get, while the read lock may be
\* held by any number of Gets.
C14_OneUpdaterWriterExcludesReaders ==
  /\ Cardinality(Updating) <= 1
  /\ runPC # "notStarted" => (mainPC = "returned" /\ updPC["main"] = "idle")
  /\ updPC["run"] # "idle" <=> runPC = "update"
  /\ mutex.writer <=> Cardinality(Writers) = 1
  /\ mutex.writer => mutex.readers = {}
  /\ mutex.pending <=> (\E c \in Callers : updPC[c] = "lockWait")
  /\ mutex.readers = {g \in Getters : gPC[g] = "locked"}

\* C14 witness: two Gets hold the read lock together while an update of run
\* waits for the write lock.
C14_Witness ==
  /\ Cardinality(mutex.readers) >= 2
  /\ updPC["run"] = "lockWait"

\* C15: updateCert reads and parses with the lock not held and holds the
\* write lock only around the pointer store, with a certificate that passed
\* X509KeyPair; so a Get that waits waits for the store alone; the write lock
\* and every read lock taken is released, and every Get that was called
\* returns.
C15_LockOnlyAroundStore ==
  /\ [](\A c \in Callers :
          /\ updPC[c] \in {"read", "keypair", "retErr", "lock", "lockWait"} => ~mutex.writer
          /\ updPC[c] \in {"store", "unlock"} =>
               (mutex.writer /\ ~updErr[c] /\ updCreds[c] = ZeroCert))
  /\ [](\A c \in Callers : updPC[c] = "store" => Complete(updCert[c]))
  /\ [](\A g \in Getters :
          (gPC[g] = "calling" /\ ~CanRLock(mutex)) =>
            \E c \in Callers : updPC[c] \in {"lockWait", "store", "unlock"})
  /\ mutex.writer ~> ~mutex.writer
  /\ \A g \in Getters :
       /\ (g \in mutex.readers) ~> (g \notin mutex.readers)
       /\ (gPC[g] = "calling") ~> (gPC[g] = "returned")

\* C15 witness: a Get waits in RLock while an update, its parsing done, is
\* about to store under the write lock.
C15_Witness ==
  \E g \in Getters :
    /\ gPC[g] = "calling" /\ ~CanRLock(mutex)
    /\ updPC["run"] = "store" /\ Complete(updCert["run"])

\* The mounted files hold the matching pair c.
ValidPair(c) == [readable |-> TRUE, crt |-> c, key |-> c]
\* The material of the pair c once loaded.
Material(c) == [crt |-> c, key |-> c]

\* C16: once run has been started, an Updated event emitted while the files
\* hold a valid pair leads to that pair being the stored certificate, unless
\* the files are replaced again first (then the same holds for the event of
\* that replacement: every update reads the files as they are when it runs);
\* and a Get always returns what is stored at that moment.
C16_UpdatedEventLeadsToStore ==
  /\ \A c \in Certs :
       (runPC # "notStarted" /\ wSend = "Updated" /\ files = ValidPair(c))
         ~> (Deref(scert) = Material(c) \/ files # ValidPair(c))
  /\ [][\A g \in Getters :
          (gPC[g] = "locked" /\ gPC'[g] = "returned") =>
            DerefIn(gPtr'[g], liveCell') = Deref(scert)]_vars

\* C16 witness: run has replaced the certificate loaded at startup by the
\* pair the files hold now, and a Get has been served it.
C16_Witness ==
  /\ runPC = "select" /\ lastOutcome = "ok"
  /\ Complete(certAtCall) /\ certAtCall # lastGood
  /\ \E c \in Certs : files = ValidPair(c) /\ Deref(scert) = Material(c)
  /\ \E g \in Getters : gPC[g] = "returned" /\ Deref(gPtr[g]) = Deref(scert)

\* The kinds of event the watcher sends.
Events == {"Updated", "Failed"}

\* C17: the event run receives is the one the watcher is blocked sending, so
\* events are consumed one by one in the order of emission; an Updated event
\* makes run call updateCert, a Failed event leaves it at the select; run is
\* never anywhere but at the select or inside updateCert, and every event
\* emitted once run is started is received.
C17_EventsConsumedInOrder ==
  /\ [][wSend # "none" => wSend' \in {wSend, "none"}]_vars
  /\ [][(wSend = "Updated" /\ wSend' = "none") =>
          (runPC = "select" /\ runPC' = "update" /\ updPC'["run"] = "read")]_vars
  /\ [][(wSend = "Failed" /\ wSend' = "none") =>
          (runPC = "select" /\ runPC' = "select" /\ updPC' = updPC)]_vars
  /\ [](runPC \in {"notStarted", "select", "update"})
  /\ \A e \in Events : (runPC # "notStarted" /\ wSend = e) ~> (wSend = "none")

\* C17 witness: run, whose previous update attempt failed, is acting on a
\* later Updated event, and the next event waiting is a Failed one.
C17_Witness ==
  /\ runPC = "update" /\ updPC["run"] = "read"
  /\ lastOutcome = "err" /\ wSend = "Failed"

\* run has come to an end: it is started and neither waits at its select nor
\* is inside updateCert.
RunTerminated == runPC \notin {"notStarted", "select", "update"}

\* C18 (as stated): once the context is cancelled, the watcher goroutine
\* returns and run terminates (unless the process has ended altogether).
C18_CancelStopsReload ==
  ctxDone ~> (proc = "fatal" \/ (wPC = "returned" /\ RunTerminated))

\* C19 (as stated): serve writes to the connection at most once per request;
\* after a failed write of the serialized review nothing more is written, and
\* the handler is not called again.
C19_WrittenAtMostOnce ==
  \A r \in Reqs :
    /\ res[r].writes <= 1
    /\ rCalls[r] <= 1

====
